---- MODULE Spec2Model ----
(***************************************************************************)
(* Model of src/syncStripe.js: the one-shot script that mirrors the        *)
(* payment provider's active products and prices into two tables of the    *)
(* destination store.                                                      *)
(*                                                                         *)
(* A run of sync() is a sequence of continuations separated by awaits.     *)
(* Every provider or persistence call is issued by one step and completes  *)
(* (returns or throws) in a later step, a callback of the library; the     *)
(* function that awaits it resumes in a step of its own.  `inflight` holds *)
(* the calls that have been issued and have not completed.  The two tables *)
(* are shared by all runs.  `log` records, per run, every call issued and  *)
(* how it ended.                                                           *)
(*                                                                         *)
(* The store is taken to be atomic per call: a create that throws inserts  *)
(* nothing, a deleteMany that throws deletes nothing.  Any call may throw. *)
(* An error raised outside sync's try (new PrismaClient() throwing, or a   *)
(* library raising in one of its callbacks) reaches the uncaughtException  *)
(* handler, which exits 1.                                                 *)
(***************************************************************************)
EXTENDS Integers, Sequences, FiniteSets, TLC

\* ------------------------------------------------------------------ bounds
\* Longest product list and longest price list a fetch returns (single run).
MaxLen == 2
\* Longest product list a fetch returns when two runs share the store.
ConcMaxProducts == 1

\* ------------------------------------------------------- JavaScript values
Null == [t |-> "null"]
Num(n) == [t |-> "num", n |-> n]
Str(s) == [t |-> "str", s |-> s]
Arr(a) == [t |-> "arr", a |-> a]

\* JavaScript truthiness, as used by `x ? a : b`, `x || y` and `if (x)`.
\* A plain object (a record without the tag t) is truthy, as is an array.
Truthy(v) ==
  IF "t" \notin DOMAIN v THEN TRUE
  ELSE CASE v.t = "null" -> FALSE
         [] v.t = "num" -> v.n # 0
         [] v.t = "str" -> v.s # ""
         [] OTHER -> TRUE

Digit(d) ==
  CASE d = 0 -> "0" [] d = 1 -> "1" [] d = 2 -> "2" [] d = 3 -> "3"
    [] d = 4 -> "4" [] d = 5 -> "5" [] d = 6 -> "6" [] d = 7 -> "7"
    [] d = 8 -> "8" [] OTHER -> "9"

RECURSIVE NumToString(_)
\* Number.prototype.toString() of an integer: its decimal digits.
NumToString(n) ==
  IF n < 0 THEN "-" \o NumToString(0 - n)
  ELSE IF n < 10 THEN Digit(n)
  ELSE NumToString(n \div 10) \o Digit(n % 10)

RECURSIVE JSToString(_), Join(_)
\* v.toString() for a non-null value v: the digits of a number, a string
\* itself, the elements of an array joined by ",", "[object Object]" for
\* any other object.
JSToString(v) ==
  IF "t" \notin DOMAIN v THEN "[object Object]"
  ELSE CASE v.t = "num" -> NumToString(v.n)
         [] v.t = "str" -> v.s
         [] v.t = "arr" -> Join(v.a)
         [] OTHER -> "[object Object]"

\* Array.prototype.join(","): null and undefined elements give "".
Join(a) ==
  LET item(e) == IF "t" \in DOMAIN e /\ e.t = "null" THEN "" ELSE JSToString(e)
  IN IF Len(a) = 0 THEN ""
     ELSE IF Len(a) = 1 THEN item(a[1])
     ELSE Join(SubSeq(a, 1, Len(a) - 1)) \o "," \o item(a[Len(a)])

\* ---------------------------------------------------------------- inputs
\* The process environment's STRIPE_SECRET_KEY: unset, empty, or a key.
Keys == {Null, Str(""), Str("sk_test_1")}

\* Records the provider can return from products.list.
ProductCatalog ==
  { [id |-> "prod_1", name |-> "Pro", description |-> Null,
     features |-> Null, images |-> <<>>],
    [id |-> "prod_2", name |-> "Team", description |-> Str("Team plan"),
     features |-> Arr(<<[name |-> "SSO"]>>), images |-> <<"a.png", "b.png">>] }

\* Records the provider can return from prices.list.  price_2 is free
\* (unit_amount 0), lets the customer choose the amount (custom_unit_amount
\* is an object) and belongs to a product that products.list never returns
\* (archived, or on a later page).
PriceCatalog ==
  { [id |-> "price_1", product |-> "prod_1", unit_amount |-> Num(1000),
     custom_unit_amount |-> Null, tiers_mode |-> Null],
    [id |-> "price_2", product |-> "prod_3", unit_amount |-> Num(0),
     custom_unit_amount |-> [maximum |-> Num(5), minimum |-> Num(1), preset |-> Num(2)],
     tiers_mode |-> Str("graduated")] }

\* What the provider has when two runs share the store: two products and
\* one price.
ProductPage == <<CHOOSE p \in ProductCatalog : p.id = "prod_1",
                 CHOOSE p \in ProductCatalog : p.id = "prod_2">>
PricePage == <<CHOOSE p \in PriceCatalog : p.id = "price_1">>

SeqsUpTo(S, n) == UNION { [1..k -> S] : k \in 0..n }

\* ------------------------------------------------------- record mappings
\* The `data` object seedProducts passes to stripeProduct.create.  `by` is
\* not a column: it tags the row with the run that inserted it (0: a row
\* that was in the table before any run).
ProductRow(data, r) ==
  [ id |-> data.id,
    description |-> IF Truthy(data.description) THEN data.description ELSE Str(""),
    features |-> LET fs == IF Truthy(data.features) THEN data.features.a ELSE <<>>
                 IN [k \in 1..Len(fs) |-> fs[k].name],
    image |-> IF Len(data.images) > 0 THEN data.images[1] ELSE "",
    name |-> data.name,
    by |-> r ]

\* The `data` object seedPrices passes to stripePrice.create.
PriceRow(data, r) ==
  [ id |-> data.id,
    customUnitAmount |-> IF Truthy(data.custom_unit_amount)
                         THEN Str(JSToString(data.custom_unit_amount)) ELSE Null,
    productId |-> data.product,
    tiersMode |-> IF Truthy(data.tiers_mode)
                  THEN Str(JSToString(data.tiers_mode)) ELSE Str(""),
    unitAmount |-> IF Truthy(data.unit_amount)
                   THEN Str(JSToString(data.unit_amount)) ELSE Null,
    by |-> r ]

\* Rows the tables may hold before a run starts.
PriorProducts == { ProductRow(d, 0) : d \in {p \in ProductCatalog : p.id = "prod_1"} }
PriorPrices == { PriceRow(d, 0) : d \in {p \in PriceCatalog : p.id = "price_1"} }
\* ----------------------------------------------------------------- state
VARIABLES
  runs,          \* the runs of the script that share the store
  key,           \* key[r]: STRIPE_SECRET_KEY in the environment of run r
  fetched,       \* fetched[r]: what products.list / prices.list return to r
  before,        \* the two tables as they were before any run started
  productTable,  \* rows of the stripeProduct table
  priceTable,    \* rows of the stripePrice table
  pc,            \* pc[r]: the await run r is suspended at
  prodFetch,     \* state of r's products.list call
  priceFetch,    \* state of r's prices.list call
  phase,         \* index into SeedOrder of the seed function r is inside
  idx,           \* index of the record whose create r is awaiting
  inflight,      \* persistence calls r has issued that have not completed
  settled,       \* the completion r's await received, until r's continuation runs
  stats,         \* counts returned to r's printStats so far
  printed,       \* the counts r's printStats has printed
  exits,         \* the codes r passed to process.exit, in order
  error,         \* message of the error r's catch block reported
  log            \* every call r issued and every completion, in order

env == <<runs, key, fetched, before>>
vars == <<runs, key, fetched, before, productTable, priceTable, pc, prodFetch,
          priceFetch, phase, idx, inflight, settled, stats, printed, exits, error,
          log>>

AllRuns == {1, 2}

DelPrices == "stripePrice.deleteMany"
DelProducts == "stripeProduct.deleteMany"
CountProducts == "stripeProduct.count"
CountPrices == "stripePrice.count"
CreateOp(kind) == IF kind = "product" THEN "stripeProduct.create" ELSE "stripePrice.create"
PersistenceOps ==
  {DelPrices, DelProducts, CountProducts, CountPrices,
   CreateOp("product"), CreateOp("price")}

Ev(op, ev, k) == [op |-> op, ev |-> ev, k |-> k]

\* The state when the runs R start, with their environments drawn from K
\* and the provider's answers from F, against a store holding one of T.
InitRun(R, K, F, T) ==
  /\ runs = R
  /\ key \in K
  /\ fetched \in F
  /\ before \in T
  /\ productTable = before.products
  /\ priceTable = before.prices
  /\ pc = [r \in R |-> "start"]
  /\ prodFetch = [r \in R |-> "idle"]
  /\ priceFetch = [r \in R |-> "idle"]
  /\ phase = [r \in R |-> 0]
  /\ idx = [r \in R |-> 0]
  /\ inflight = [r \in R |-> {}]
  /\ settled = [r \in R |-> <<>>]
  /\ stats = [r \in R |-> {}]
  /\ printed = [r \in R |-> {}]
  /\ exits = [r \in R |-> <<>>]
  /\ error = [r \in R |-> ""]
  /\ log = [r \in R |-> <<>>]

\* One run of the script against the store.
Init ==
  InitRun({1}, [{1} -> Keys],
          [{1} -> [products : SeqsUpTo(ProductCatalog, MaxLen),
                   prices : SeqsUpTo(PriceCatalog, MaxLen)]],
          {[products |-> {}, prices |-> {}],
           [products |-> PriorProducts, prices |-> PriorPrices]})
\* ------------------------------------------------------------ sync: helpers
Products(r) == fetched[r].products
Prices(r) == fetched[r].prices

\* getStripeInstance without its test of the key.
HasCredential_Unchecked(k) == TRUE

\* getStripeInstance returns a client only for a truthy STRIPE_SECRET_KEY.
HasCredential(k) == Truthy(k)

\* The fetches raced instead of joined: resolved when either has returned.
FetchJoined_Either(r) == prodFetch[r] = "ok" \/ priceFetch[r] = "ok"

\* Promise.all of the two fetches: resolved when both have returned.
FetchJoined(r) == prodFetch[r] = "ok" /\ priceFetch[r] = "ok"

\* The guard without its test of the product list.
CanSync_PricesOnly(products, prices) == Len(prices) > 0

\* The guard of the destructive branch of sync.
CanSync(products, prices) == Len(prices) > 0 /\ Len(products) > 0

\* seedPrices called before seedProducts.
SeedOrder_PricesFirst == <<"price", "product">>

\* The order sync calls the two seed functions in.
SeedOrder == <<"product", "price">>

\* cleanup without the await on its first delete.
CleanupIssue_NoAwait == <<DelPrices, DelProducts>>

\* The calls cleanup has issued when it first suspends, in order.
CleanupIssue == <<DelPrices>>

\* The calls printStats has issued when it suspends (one Promise.all).
StatsIssue == <<CountProducts, CountPrices>>

Range(q) == { q[k] : k \in 1..Len(q) }
Issued(q) == [k \in 1..Len(q) |-> Ev(q[k], "issue", 0)]

\* A deleteMany that removes nothing.
DeleteMany_Nothing(table) == table

\* What deleteMany({}) leaves of a table.
DeleteMany(table) == {}

\* What count() returns for a table.
Count(table) == Cardinality(table)

ListOf(r, kind) == IF kind = "product" THEN Products(r) ELSE Prices(r)

\* The first seed function from position ph on that has a record to insert
\* (a for-of loop over an empty list issues nothing); 0 when there is none.
RECURSIVE SeedFrom(_, _)
SeedFrom(r, ph) ==
  IF ph > Len(SeedOrder) THEN 0
  ELSE IF Len(ListOf(r, SeedOrder[ph])) > 0 THEN ph
  ELSE SeedFrom(r, ph + 1)

\* process.exit(code): the process ends, whatever it was waiting for.
Exit(r, code, msg) ==
  /\ pc' = [pc EXCEPT ![r] = "done"]
  /\ exits' = [exits EXCEPT ![r] = Append(@, code)]
  /\ error' = [error EXCEPT ![r] = msg]
  /\ inflight' = [inflight EXCEPT ![r] = {}]
  /\ settled' = [settled EXCEPT ![r] = <<>>]

\* The run goes on to the create of record k of seed function ph, or, past
\* the last record, to the next seed function, or to printStats, which
\* issues both counts at once.  `l` is the log up to here.
Proceed(r, ph, k, l) ==
  LET p == IF ph > 0 /\ ph <= Len(SeedOrder) /\ k <= Len(ListOf(r, SeedOrder[ph]))
           THEN ph ELSE SeedFrom(r, ph + 1)
      kk == IF p = ph THEN k ELSE 1
  IN IF p = 0
     THEN /\ pc' = [pc EXCEPT ![r] = "stats"]
          /\ phase' = [phase EXCEPT ![r] = 0]
          /\ idx' = [idx EXCEPT ![r] = 0]
          /\ inflight' = [inflight EXCEPT ![r] = Range(StatsIssue)]
          /\ log' = [log EXCEPT ![r] = l \o Issued(StatsIssue)]
     ELSE /\ pc' = [pc EXCEPT ![r] = "seed"]
          /\ phase' = [phase EXCEPT ![r] = p]
          /\ idx' = [idx EXCEPT ![r] = kk]
          /\ inflight' = [inflight EXCEPT ![r] = {CreateOp(SeedOrder[p])}]
          /\ log' = [log EXCEPT ![r] = Append(l, Ev(CreateOp(SeedOrder[p]), "issue", kk))]

\* ------------------------------------------------------------ sync: steps
\* Every await of sync gives two jobs of the event loop: the library's
\* callback, which completes the call, and then the continuation of the
\* awaiting function.  `settled[r]` holds the completion between the two.

\* Run r is suspended at p on call op, which has not completed.
Awaiting(r, p, op) == pc[r] = p /\ settled[r] = <<>> /\ op \in inflight[r]

\* The library's callback for the completion e of an awaited call.
Settle(r, e) ==
  /\ settled' = [settled EXCEPT ![r] = <<e>>]
  /\ inflight' = [inflight EXCEPT ![r] = @ \ {e.op}]
  /\ log' = [log EXCEPT ![r] = Append(@, e)]

\* sync up to its first await: the credential check, then both fetches are
\* issued; without a credential getStripeInstance throws and sync exits 1.
Start(r) ==
  /\ pc[r] = "start"
  /\ IF HasCredential(key[r])
     THEN /\ pc' = [pc EXCEPT ![r] = "fetch"]
          /\ prodFetch' = [prodFetch EXCEPT ![r] = "pending"]
          /\ priceFetch' = [priceFetch EXCEPT ![r] = "pending"]
          /\ log' = [log EXCEPT ![r] = Issued(<<"products.list", "prices.list">>)]
          /\ UNCHANGED <<exits, error, inflight, settled>>
     ELSE /\ Exit(r, 1, "STRIPE_SECRET_KEY environment variable not set")
          /\ UNCHANGED <<prodFetch, priceFetch, log>>
  /\ UNCHANGED <<env, printed, productTable, priceTable, phase, idx, stats>>

\* A fetch resolves; the Promise.all waits for the other one.
ProductsFetchReturns(r) ==
  /\ pc[r] = "fetch" /\ settled[r] = <<>> /\ prodFetch[r] = "pending"
  /\ prodFetch' = [prodFetch EXCEPT ![r] = "ok"]
  /\ log' = [log EXCEPT ![r] = Append(@, Ev("products.list", "return", 0))]
  /\ UNCHANGED <<env, printed, productTable, priceTable, pc, priceFetch, phase, idx,
                 inflight, settled, stats, exits, error>>

PricesFetchReturns(r) ==
  /\ pc[r] = "fetch" /\ settled[r] = <<>> /\ priceFetch[r] = "pending"
  /\ priceFetch' = [priceFetch EXCEPT ![r] = "ok"]
  /\ log' = [log EXCEPT ![r] = Append(@, Ev("prices.list", "return", 0))]
  /\ UNCHANGED <<env, printed, productTable, priceTable, pc, prodFetch, phase, idx,
                 inflight, settled, stats, exits, error>>

\* A fetch rejects, which rejects the Promise.all.
ProductsFetchThrows(r) ==
  /\ pc[r] = "fetch" /\ settled[r] = <<>> /\ prodFetch[r] = "pending"
  /\ prodFetch' = [prodFetch EXCEPT ![r] = "err"]
  /\ Settle(r, Ev("products.list", "throw", 0))
  /\ UNCHANGED <<env, printed, productTable, priceTable, pc, priceFetch, phase, idx,
                 stats, exits, error>>

PricesFetchThrows(r) ==
  /\ pc[r] = "fetch" /\ settled[r] = <<>> /\ priceFetch[r] = "pending"
  /\ priceFetch' = [priceFetch EXCEPT ![r] = "err"]
  /\ Settle(r, Ev("prices.list", "throw", 0))
  /\ UNCHANGED <<env, printed, productTable, priceTable, pc, prodFetch, phase, idx,
                 stats, exits, error>>

\* The continuation of the Promise.all of the fetches: the emptiness test,
\* then cleanup up to its first await, or the throw into the catch block.
AfterFetch(r) ==
  /\ pc[r] = "fetch" /\ settled[r] = <<>> /\ FetchJoined(r)
  /\ IF CanSync(Products(r), Prices(r))
     THEN /\ pc' = [pc EXCEPT ![r] = "cleanup"]
          /\ inflight' = [inflight EXCEPT ![r] = Range(CleanupIssue)]
          /\ log' = [log EXCEPT ![r] = @ \o Issued(CleanupIssue)]
          /\ UNCHANGED <<exits, error, settled>>
     ELSE /\ Exit(r, 1, IF Len(Prices(r)) = 0 THEN "No prices found on Stripe"
                        ELSE "No products found on Stripe")
          /\ UNCHANGED log
  /\ UNCHANGED <<env, printed, productTable, priceTable, prodFetch, priceFetch, phase, idx, stats>>

\* cleanup: the price delete resolves.
DeletePricesReturns(r) ==
  /\ Awaiting(r, "cleanup", DelPrices)
  /\ priceTable' = DeleteMany(priceTable)
  /\ Settle(r, Ev(DelPrices, "return", 0))
  /\ UNCHANGED <<env, printed, productTable, pc, prodFetch, priceFetch, phase, idx,
                 stats, exits, error>>

\* cleanup: the product delete resolves.
DeleteProductsReturns(r) ==
  /\ Awaiting(r, "cleanup", DelProducts)
  /\ productTable' = DeleteMany(productTable)
  /\ Settle(r, Ev(DelProducts, "return", 0))
  /\ UNCHANGED <<env, printed, priceTable, pc, prodFetch, priceFetch, phase, idx,
                 stats, exits, error>>

\* A deleteMany that rejects leaves its table alone.
DeletePricesThrows(r) ==
  /\ Awaiting(r, "cleanup", DelPrices)
  /\ Settle(r, Ev(DelPrices, "throw", 0))
  /\ UNCHANGED <<env, printed, productTable, priceTable, pc, prodFetch, priceFetch,
                 phase, idx, stats, exits, error>>

DeleteProductsThrows(r) ==
  /\ Awaiting(r, "cleanup", DelProducts)
  /\ Settle(r, Ev(DelProducts, "throw", 0))
  /\ UNCHANGED <<env, printed, productTable, priceTable, pc, prodFetch, priceFetch,
                 phase, idx, stats, exits, error>>

\* cleanup after its first await: the product delete is issued.
AfterDeletePrices(r) ==
  /\ pc[r] = "cleanup"
  /\ settled[r] = <<Ev(DelPrices, "return", 0)>>
  /\ settled' = [settled EXCEPT ![r] = <<>>]
  /\ inflight' = [inflight EXCEPT ![r] = @ \cup {DelProducts}]
  /\ log' = [log EXCEPT ![r] = Append(@, Ev(DelProducts, "issue", 0))]
  /\ UNCHANGED <<env, printed, productTable, priceTable, pc, prodFetch, priceFetch,
                 phase, idx, stats, exits, error>>

\* cleanup returns and sync goes on to the seed functions.
AfterDeleteProducts(r) ==
  /\ pc[r] = "cleanup"
  /\ settled[r] = <<Ev(DelProducts, "return", 0)>>
  /\ settled' = [settled EXCEPT ![r] = <<>>]
  /\ Proceed(r, 0, 1, log[r])
  /\ UNCHANGED <<env, printed, productTable, priceTable, prodFetch, priceFetch,
                 stats, exits, error>>

\* The store refuses a second row with an id a table already holds (the id
\* is the primary key of both tables).
IdTaken(table, id) == \E row \in table : row.id = id

Seeding(r, kind) ==
  /\ pc[r] = "seed"
  /\ SeedOrder[phase[r]] = kind
  /\ settled[r] = <<>>
  /\ CreateOp(kind) \in inflight[r]

\* seedProducts: the awaited create resolves; the row is in the table (the
\* store refuses a second row with the same id).
SeedProductReturns(r) ==
  /\ Seeding(r, "product")
  /\ LET data == Products(r)[idx[r]]
     IN /\ ~IdTaken(productTable, data.id)
        /\ productTable' = productTable \cup {ProductRow(data, r)}
  /\ Settle(r, Ev(CreateOp("product"), "return", idx[r]))
  /\ UNCHANGED <<env, printed, priceTable, pc, prodFetch, priceFetch, phase, idx,
                 stats, exits, error>>

\* seedProducts: the awaited create rejects (a duplicate id, or any other
\* error).
SeedProductThrows(r) ==
  /\ Seeding(r, "product")
  /\ Settle(r, Ev(CreateOp("product"), "throw", idx[r]))
  /\ UNCHANGED <<env, printed, productTable, priceTable, pc, prodFetch, priceFetch,
                 phase, idx, stats, exits, error>>

\* seedPrices: as seedProducts; the store checks no reference to a product.
SeedPriceReturns(r) ==
  /\ Seeding(r, "price")
  /\ LET data == Prices(r)[idx[r]]
     IN /\ ~IdTaken(priceTable, data.id)
        /\ priceTable' = priceTable \cup {PriceRow(data, r)}
  /\ Settle(r, Ev(CreateOp("price"), "return", idx[r]))
  /\ UNCHANGED <<env, printed, productTable, pc, prodFetch, priceFetch, phase, idx,
                 stats, exits, error>>

SeedPriceThrows(r) ==
  /\ Seeding(r, "price")
  /\ Settle(r, Ev(CreateOp("price"), "throw", idx[r]))
  /\ UNCHANGED <<env, printed, productTable, priceTable, pc, prodFetch, priceFetch,
                 phase, idx, stats, exits, error>>

\* seedProducts without its try/catch.
Caught_PricesOnly(op) == op = CreateOp("price")

\* The calls whose rejection the caller catches itself: the create of each
\* seed loop, inside the loop's try/catch.
Caught(op) == op \in {CreateOp("product"), CreateOp("price")}

\* A seed loop after its await: the create resolved, or it rejected and the
\* catch logged the error; the loop goes on to the next record.
AfterCreate(r) ==
  /\ pc[r] = "seed" /\ settled[r] # <<>>
  /\ settled[r][1].ev = "return" \/ Caught(settled[r][1].op)
  /\ settled' = [settled EXCEPT ![r] = <<>>]
  /\ Proceed(r, phase[r], idx[r] + 1, log[r])
  /\ UNCHANGED <<env, printed, productTable, priceTable, prodFetch, priceFetch,
                 stats, exits, error>>

\* The two counts read from each other's table.
TableOf_Swapped(op) == IF op = CountProducts THEN priceTable ELSE productTable

\* The table a count call reads.
TableOf(op) == IF op = CountProducts THEN productTable ELSE priceTable

\* printStats: one of the two counts resolves; the Promise.all waits for
\* the other one.
CountReturns(r, op) ==
  /\ Awaiting(r, "stats", op)
  /\ stats' = [stats EXCEPT ![r] = @ \cup {[op |-> op, n |-> Count(TableOf(op))]}]
  /\ inflight' = [inflight EXCEPT ![r] = @ \ {op}]
  /\ log' = [log EXCEPT ![r] = Append(@, Ev(op, "return", 0))]
  /\ UNCHANGED <<env, printed, productTable, priceTable, pc, prodFetch, priceFetch,
                 phase, idx, settled, exits, error>>

\* printStats with the rejected count swallowed instead of rethrown.
CountThrows_Swallowed(r, op) ==
  /\ Awaiting(r, "stats", op)
  /\ inflight' = [inflight EXCEPT ![r] = @ \ {op}]
  /\ log' = [log EXCEPT ![r] = Append(@, Ev(op, "throw", 0))]
  /\ UNCHANGED <<env, printed, productTable, priceTable, pc, prodFetch, priceFetch,
                 phase, idx, settled, stats, exits, error>>

\* printStats: a count rejects, which rejects the Promise.all.
CountThrows(r, op) ==
  /\ Awaiting(r, "stats", op)
  /\ Settle(r, Ev(op, "throw", 0))
  /\ UNCHANGED <<env, printed, productTable, priceTable, pc, prodFetch, priceFetch,
                 phase, idx, stats, exits, error>>

\* Both counts resolved: the stats are printed and sync exits 0.
PrintStats(r) ==
  /\ pc[r] = "stats" /\ settled[r] = <<>> /\ inflight[r] = {}
  /\ printed' = [printed EXCEPT ![r] = stats[r]]
  /\ Exit(r, 0, "")
  /\ UNCHANGED <<env, productTable, priceTable, prodFetch, priceFetch, phase,
                 idx, stats, log>>

\* A rejection no seed loop catches reaches sync's catch block, which
\* exits 1.
SyncCatches(r) ==
  /\ pc[r] # "done" /\ settled[r] # <<>>
  /\ settled[r][1].ev = "throw" /\ ~Caught(settled[r][1].op)
  /\ Exit(r, 1, settled[r][1].op \o " failed")
  /\ UNCHANGED <<env, printed, productTable, priceTable, prodFetch, priceFetch,
                 phase, idx, stats, log>>

Uncaught == "Uncaught Exception"

\* An error thrown outside sync's try: by new PrismaClient() before sync's
\* first await (the rejected sync() is raised as an uncaught exception), or
\* by a library in one of its callbacks, before or after the callback
\* completed a call.  The handler exits 1.
UncaughtException(r) ==
  /\ pc[r] # "done"
  /\ Exit(r, 1, Uncaught)
  /\ UNCHANGED <<env, printed, productTable, priceTable, prodFetch, priceFetch,
                 phase, idx, stats, log>>

Next ==
  \/ \E r \in runs : Start(r)
  \/ \E r \in runs : UncaughtException(r)
  \/ \E r \in runs : ProductsFetchReturns(r)
  \/ \E r \in runs : PricesFetchReturns(r)
  \/ \E r \in runs : ProductsFetchThrows(r)
  \/ \E r \in runs : PricesFetchThrows(r)
  \/ \E r \in runs : AfterFetch(r)
  \/ \E r \in runs : DeletePricesReturns(r)
  \/ \E r \in runs : DeleteProductsReturns(r)
  \/ \E r \in runs : DeletePricesThrows(r)
  \/ \E r \in runs : DeleteProductsThrows(r)
  \/ \E r \in runs : AfterDeletePrices(r)
  \/ \E r \in runs : AfterDeleteProducts(r)
  \/ \E r \in runs : SeedProductReturns(r)
  \/ \E r \in runs : SeedProductThrows(r)
  \/ \E r \in runs : SeedPriceReturns(r)
  \/ \E r \in runs : SeedPriceThrows(r)
  \/ \E r \in runs : AfterCreate(r)
  \/ \E r \in runs, op \in Range(StatsIssue) : CountReturns(r, op)
  \/ \E r \in runs, op \in Range(StatsIssue) : CountThrows(r, op)
  \/ \E r \in runs : PrintStats(r)
  \/ \E r \in runs : SyncCatches(r)

Spec == Init /\ [][Next]_vars

\* Two runs of the script started against the same store.
\* Both are started by the same deployment: the same credential, and the
\* same answers of the provider (its first products, at most ConcMaxProducts
\* of them, and its price or none), against a store an earlier run has
\* filled.
InitConc ==
  InitRun(AllRuns, { [r \in AllRuns |-> k] : k \in Keys },
          { [r \in AllRuns |-> [products |-> SubSeq(ProductPage, 1, mn[1]),
                                prices |-> SubSeq(PricePage, 1, mn[2])]] :
              mn \in { x \in (0..Len(ProductPage)) \X (0..Len(PricePage)) :
                          x[1] <= ConcMaxProducts } },
          {[products |-> PriorProducts, prices |-> PriorPrices]})
SpecConc == InitConc /\ [][Next]_vars
\* ------------------------------------------------- reading the call log
Fetches == {"products.list", "prices.list"}
Deletes == {DelPrices, DelProducts}
Creates == {CreateOp("product"), CreateOp("price")}
Counts == {CountProducts, CountPrices}

\* Run r's log holds event ev of call op.
Happened(r, op, ev) ==
  \E n \in 1..Len(log[r]) : log[r][n].op = op /\ log[r][n].ev = ev
\* Indices of the records of r's list whose create returned / threw /
\* completed either way.
CreateEnds(r, kind, evs) ==
  { log[r][n].k :
      n \in { m \in 1..Len(log[r]) :
                log[r][m].op = CreateOp(kind) /\ log[r][m].ev \in evs } }
OkIdx(r, kind) == CreateEnds(r, kind, {"return"})
ThrewIdx(r, kind) == CreateEnds(r, kind, {"throw"})
AllTried(r, kind) ==
  CreateEnds(r, kind, {"return", "throw"}) = 1..Len(ListOf(r, kind))

IsCreateIssue(e) == e.ev = "issue" /\ e.op \in Creates
\* The create calls r has issued, in order.
Attempts(r) ==
  LET q == SelectSeq(log[r], IsCreateIssue)
  IN [n \in 1..Len(q) |-> <<q[n].op, q[n].k>>]
\* Every fetched product, then every fetched price, each once, in fetch order.
AllAttempts(r) ==
  [n \in 1..Len(Products(r)) |-> <<CreateOp("product"), n>>]
    \o [n \in 1..Len(Prices(r)) |-> <<CreateOp("price"), n>>]
IsPrefix(p, q) == Len(p) <= Len(q) /\ \A n \in 1..Len(p) : p[n] = q[n]

\* The counts printStats printed for table-count call op.
Reported(r, op) == { st.n : st \in { x \in printed[r] : x.op = op } }

StoreUntouched ==
  productTable = before.products /\ priceTable = before.prices
NoPersistenceCall(r) ==
  /\ inflight[r] = {}
  /\ \A n \in 1..Len(log[r]) : log[r][n].op \notin PersistenceOps

\* ---------------------------------------------------------------- claims
\* C1: when both fetches returned and the price list is empty, or the
\* product list is empty, the run issues no deleteMany, create or count,
\* both tables hold exactly the rows they held before, and the run's only
\* way on is to exit with code 1.
C1_EmptyListAborts ==
  \A r \in runs :
    (prodFetch[r] = "ok" /\ priceFetch[r] = "ok"
       /\ (Len(Prices(r)) = 0 \/ Len(Products(r)) = 0))
    => /\ NoPersistenceCall(r)
       /\ StoreUntouched
       /\ pc[r] \in {"fetch", "done"}
       /\ pc[r] = "done" => exits[r] = <<1>>
       /\ pc[r] = "fetch" => ENABLED AfterFetch(r)

C1_Witness ==
  /\ pc[1] = "done" /\ exits[1] = <<1>>
  /\ prodFetch[1] = "ok" /\ priceFetch[1] = "ok"
  /\ Len(Prices(1)) > 0 /\ Len(Products(1)) = 0
  /\ error[1] = "No products found on Stripe"
  /\ productTable # {} /\ priceTable # {}

\* C2: without STRIPE_SECRET_KEY the run exits 1 having called neither the
\* provider nor the store: nothing is deleted and both tables are unchanged.
C2_NoCredentialNoCall ==
  \A r \in runs :
    key[r] = Null
    => /\ log[r] = <<>>
       /\ prodFetch[r] = "idle" /\ priceFetch[r] = "idle"
       /\ inflight[r] = {}
       /\ StoreUntouched
       /\ pc[r] \in {"start", "done"}
       /\ pc[r] = "done" => exits[r] = <<1>>

C2_Witness ==
  /\ key[1] = Null
  /\ pc[1] = "done" /\ exits[1] = <<1>>
  /\ error[1] = "STRIPE_SECRET_KEY environment variable not set"
  /\ productTable # {} /\ priceTable # {}
\* C3: when a sole-writer run exits 0, each table holds exactly the records
\* whose create call in this run returned, and no row from before the run;
\* the reported counts are the numbers of creates that returned.
C3_ExactlyTheInsertedRows ==
  \A r \in runs :
    exits[r] = <<0>>
    => /\ productTable = { ProductRow(Products(r)[k], r) : k \in OkIdx(r, "product") }
       /\ priceTable = { PriceRow(Prices(r)[k], r) : k \in OkIdx(r, "price") }
       /\ \A row \in productTable \cup priceTable : row.by # 0
       /\ Reported(r, CountProducts) = {Cardinality(OkIdx(r, "product"))}
       /\ Reported(r, CountPrices) = {Cardinality(OkIdx(r, "price"))}

C3_Witness ==
  /\ exits[1] = <<0>>
  /\ before.products # {} /\ before.prices # {}
  /\ ThrewIdx(1, "product") # {} /\ OkIdx(1, "product") # {}
  /\ ThrewIdx(1, "price") # {} /\ OkIdx(1, "price") # {}
  /\ Reported(1, CountProducts) = {1} /\ Len(Products(1)) = 2
  /\ Reported(1, CountPrices) = {1} /\ Len(Prices(1)) = 2

\* C4 as stated: a run in which a create threw (and no error was raised
\* outside sync) still attempts every fetched record once, in order, reaches
\* the count step and exits 0.
C4_Original ==
  \A r \in runs :
    (pc[r] = "done" /\ error[r] # Uncaught
       /\ ThrewIdx(r, "product") \cup ThrewIdx(r, "price") # {})
    => /\ Attempts(r) = AllAttempts(r)
       /\ \A op \in Counts : Happened(r, op, "issue")
       /\ exits[r] = <<0>>

\* C4, amended: a create that throws never aborts the run.  The creates
\* issued are always a prefix of: every fetched product, then every fetched
\* price, in fetch order; a run that got past cleanup ends only after all of
\* them were attempted and the counts were issued; and it exits 0 unless a
\* count throws.  (Runs ended by an error raised outside sync are set aside.)
C4_CreateErrorsNeverAbort ==
  \A r \in runs :
    /\ IsPrefix(Attempts(r), AllAttempts(r))
    /\ (pc[r] = "done" /\ error[r] # Uncaught /\ Happened(r, DelProducts, "return"))
       => /\ Attempts(r) = AllAttempts(r)
          /\ AllTried(r, "product")
          /\ AllTried(r, "price")
          /\ \A op \in Counts : Happened(r, op, "issue")
          /\ (\A op \in Counts : ~Happened(r, op, "throw")) => exits[r] = <<0>>

C4_Witness ==
  /\ pc[1] = "done" /\ exits[1] = <<0>>
  /\ Len(Products(1)) = 2 /\ Len(Prices(1)) = 2
  /\ 1 \in ThrewIdx(1, "product") /\ 2 \in OkIdx(1, "product")
  /\ 1 \in ThrewIdx(1, "price") /\ 2 \in OkIdx(1, "price")

\* C5 as stated: every price row a run inserted refers to a product row the
\* same run inserted.
C5_Original ==
  \A row \in priceTable :
    row.by \in runs
    => \E p \in productTable : p.by = row.by /\ p.id = row.productId

\* C5, amended: a price row a sole-writer run inserted is inserted only
\* after the create of every fetched product has completed, its productId
\* is the product of the fetched price, and it refers to a product row of
\* the same run whenever a fetched product with that id was inserted
\* without error.
C5_PricesAfterProducts ==
  \A row \in priceTable :
    row.by \in runs
    => LET r == row.by
       IN /\ AllTried(r, "product")
          /\ \E k \in OkIdx(r, "price") :
               Prices(r)[k].id = row.id /\ Prices(r)[k].product = row.productId
          /\ (\E k \in OkIdx(r, "product") : Products(r)[k].id = row.productId)
             => \E p \in productTable : p.by = r /\ p.id = row.productId

C5_Witness ==
  /\ \E row \in priceTable :
       /\ row.by = 1
       /\ \E p \in productTable : p.by = 1 /\ p.id = row.productId
  /\ \E row \in priceTable :
       /\ row.by = 1
       /\ \A p \in productTable : p.id # row.productId
  /\ ThrewIdx(1, "product") # {}
\* Some step of run r's main flow.
RunStep(r) ==
  \/ Start(r) \/ AfterFetch(r) \/ PrintStats(r) \/ SyncCatches(r)
  \/ AfterDeletePrices(r) \/ AfterDeleteProducts(r) \/ AfterCreate(r)
  \/ ProductsFetchReturns(r) \/ PricesFetchReturns(r)
  \/ ProductsFetchThrows(r) \/ PricesFetchThrows(r)
  \/ DeletePricesReturns(r) \/ DeleteProductsReturns(r)
  \/ DeletePricesThrows(r) \/ DeleteProductsThrows(r)
  \/ SeedProductReturns(r) \/ SeedProductThrows(r)
  \/ SeedPriceReturns(r) \/ SeedPriceThrows(r)
  \/ \E op \in Counts : CountReturns(r, op) \/ CountThrows(r, op)

\* A condition the error taxonomy calls fatal has occurred in run r.
Fatal(r) ==
  \/ key[r] \in {Null, Str("")}
  \/ /\ prodFetch[r] = "ok" /\ priceFetch[r] = "ok"
     /\ (Len(Prices(r)) = 0 \/ Len(Products(r)) = 0)
  \/ \E n \in 1..Len(log[r]) :
       log[r][n].ev = "throw" /\ log[r][n].op \in Fetches \cup Deletes \cup Counts
  \/ error[r] = Uncaught

\* C6: a run passes at most one code to process.exit and has ended exactly
\* when it did; until then it has a step to take.  The code is 0 only if
\* both deletes returned, every fetched record was attempted and both counts
\* returned; it is 1 whenever the credential is missing, a fetched list is
\* empty, a fetch, a deleteMany or a count threw, or an error was raised
\* outside sync; otherwise it is 0.
C6_ExitCodes ==
  \A r \in runs :
    /\ Len(exits[r]) <= 1
    /\ pc[r] = "done" <=> Len(exits[r]) = 1
    /\ pc[r] # "done" => ENABLED RunStep(r)
    /\ exits[r] \in {<<>>, <<0>>, <<1>>}
    /\ exits[r] = <<0>>
       => /\ \A op \in Deletes : Happened(r, op, "return")
          /\ Attempts(r) = AllAttempts(r)
          /\ AllTried(r, "product")
          /\ AllTried(r, "price")
          /\ \A op \in Counts : Happened(r, op, "return") /\ Reported(r, op) # {}
    /\ pc[r] = "done" => exits[r] = IF Fatal(r) THEN <<1>> ELSE <<0>>

C6_Witness ==
  /\ pc[1] = "done" /\ exits[1] = <<1>>
  /\ Happened(1, CountPrices, "throw")
  /\ Happened(1, CountProducts, "return")
  /\ OkIdx(1, "product") # {} /\ OkIdx(1, "price") # {}

\* C7 as stated: a stored price has unitAmount the decimal string of the
\* fetched unit_amount whenever that is present (0 included) and null only
\* when it is absent; its tiersMode is "" when tiers_mode is absent, never
\* null.
C7_Original ==
  \A row \in priceTable :
    row.by \in runs
    => \E k \in 1..Len(Prices(row.by)) :
         LET data == Prices(row.by)[k]
         IN /\ data.id = row.id
            /\ row.unitAmount = IF data.unit_amount = Null THEN Null
                                ELSE Str(NumToString(data.unit_amount.n))
            /\ row.tiersMode # Null
            /\ data.tiers_mode = Null => row.tiersMode = Str("")

\* C8 as stated: once the fetches have joined, a run never has more than
\* one persistence call in flight.
C8_Original ==
  \A r \in runs : Cardinality(inflight[r] \cap PersistenceOps) <= 1

\* C8, amended: the deletes and the creates are strictly sequential, each
\* completing before the next call is issued, and none is issued before the
\* fetches have joined; only the two counts, issued together after the last
\* create has completed, are in flight at once.
C8_OneWriteInFlight ==
  \A r \in runs :
    /\ inflight[r] \subseteq PersistenceOps
    /\ inflight[r] # {} => prodFetch[r] = "ok" /\ priceFetch[r] = "ok"
    /\ Cardinality(inflight[r]) <= 1 \/ inflight[r] = Counts
    /\ inflight[r] \cap Counts # {}
       => /\ inflight[r] \subseteq Counts
          /\ AllTried(r, "price")

C8_Witness ==
  /\ inflight[1] = {CountProducts, CountPrices}
  /\ OkIdx(1, "product") # {} /\ OkIdx(1, "price") # {}

\* Positions of log l that hold an event of evs of a call of ops.
Positions(l, evs, ops) == { n \in 1..Len(l) : l[n].ev \in evs /\ l[n].op \in ops }
\* Every position of B has a position of A before it.
Precedes(A, B) == \A n \in B : \E m \in A : m < n
\* Before every position of B, the creates at the positions E of log l
\* cover records 1..len.
TriedBefore(l, E, B, len) ==
  \A n \in B : { l[m].k : m \in { j \in E : j < n } } = 1..len
Ended == {"return", "throw"}

\* C9: in a run's call log, a deleteMany is issued only after both fetches
\* returned, with non-empty lists; the product delete only after the price
\* delete returned; a create only after both deletes returned; a price
\* create only after every product create completed; a count only after
\* every price create completed.
C9_DestructiveStepsOrdered ==
  \A r \in runs :
    /\ Positions(log[r], {"issue"}, Deletes) # {}
       => Len(Products(r)) > 0 /\ Len(Prices(r)) > 0
    /\ Precedes(Positions(log[r], {"return"}, {"products.list"}),
                Positions(log[r], {"issue"}, Deletes))
    /\ Precedes(Positions(log[r], {"return"}, {"prices.list"}),
                Positions(log[r], {"issue"}, Deletes))
    /\ Precedes(Positions(log[r], {"return"}, {DelPrices}),
                Positions(log[r], {"issue"}, {DelProducts} \cup Creates \cup Counts))
    /\ Precedes(Positions(log[r], {"return"}, {DelProducts}),
                Positions(log[r], {"issue"}, Creates \cup Counts))
    /\ TriedBefore(log[r], Positions(log[r], Ended, {CreateOp("product")}),
                   Positions(log[r], {"issue"}, {CreateOp("price")} \cup Counts),
                   Len(Products(r)))
    /\ TriedBefore(log[r], Positions(log[r], Ended, {CreateOp("price")}),
                   Positions(log[r], {"issue"}, Counts),
                   Len(Prices(r)))

C9_Witness ==
  /\ pc[1] = "done" /\ exits[1] = <<0>>
  /\ Len(Products(1)) = 2 /\ Len(Prices(1)) = 2
  /\ log[1][4] = Ev("products.list", "return", 0)

\* Rows run r inserted that the store no longer holds.
Lost(r) ==
  { ProductRow(Products(r)[k], r) : k \in OkIdx(r, "product") } \ productTable

\* C10: when two runs share the store, rows a run inserted can be gone by
\* the time it counts, so that it exits 0 reporting fewer products than it
\* inserted (C10_Witness is such a state); this happens only through the
\* other run's deleteMany: until that has returned, a run has lost no row
\* and, when it exits 0, reports no fewer products than it inserted.
C10_LossOnlyByOtherRunsDelete ==
  \A r \in runs :
    (\A o \in runs \ {r} : ~Happened(o, DelProducts, "return"))
    => /\ Lost(r) = {}
       /\ exits[r] = <<0>>
          => \A n \in Reported(r, CountProducts) : n >= Cardinality(OkIdx(r, "product"))

C10_Witness ==
  /\ exits[1] = <<0>>
  /\ OkIdx(1, "product") # {}
  /\ Lost(1) # {}
  /\ \E n \in Reported(1, CountProducts) : n < Cardinality(OkIdx(1, "product"))
  /\ Happened(2, DelProducts, "return")
====
